---- MODULE Spec2Model ----
(***************************************************************************)
(* Model of the message transport of ggez-no-re (src/src/transport.rs):    *)
(* the framed channel (MessageTransporter), the directional transports,    *)
(* the MessageServer listener and reader threads and the MessageClient     *)
(* connection thread.                                                      *)
(*                                                                         *)
(* A byte stream is a sequence of runs <<b, n>> (n copies of byte b), so   *)
(* that a payload of 16 MiB is a value the model can hold.  Adjacent runs  *)
(* never carry the same byte (Cat keeps the stream normalised).            *)
(***************************************************************************)
EXTENDS Integers, Sequences, FiniteSets, TLC

\* ------------------------------------------------------------- bounds
\* frames (sent or forged) put on the channel of the framing specification
MaxFrames == 2
\* receive calls made on that channel
MaxCalls == 3
\* connections the client establishes
MaxConns == 2
\* operations the two applications make on their handles and sinks, in total
MaxOps == 2
\* failures of bind, accept and try_clone, in total
MaxFaults == 1
\* consecutive failed connects that are counted (more are counted as this)
MaxStreak == 2

MaxSenders == 2

\* ------------------------------------------------- program constants
MAX_PACKET_SIZE == 16 * 1024 * 1024

\* u64 values above this are represented by it: the code only compares the
\* length with MAX_PACKET_SIZE and reads that many bytes when it is smaller
U64Sat == (1073741823 * 2) + 1

\* usize is 64 bits wide on the targets modelled: the cast of line 65 keeps
\* the value

\* ------------------------------------------------------ byte streams
\* The operators below bind their arguments and intermediate results as the
\* element of a one-element set: such a binding is evaluated once, where a
\* parameter or a LET definition is evaluated at each of its uses.
Only(S) == CHOOSE x \in S : TRUE

RECURSIVE Avail(_)
Avail(s) ==
    Only({ IF v = <<>> THEN 0 ELSE Head(v)[2] + Avail(Tail(v)) : v \in {s} })

Cat(s, t) ==
    Only({ IF a = <<>> THEN b
           ELSE IF b = <<>> THEN a
           ELSE IF a[Len(a)][1] = b[1][1]
                THEN SubSeq(a, 1, Len(a) - 1)
                     \o <<<<b[1][1], a[Len(a)][2] + b[1][2]>>>>
                     \o Tail(b)
                ELSE a \o b
           : a \in {s}, b \in {t} })

Run(b, n) == IF n = 0 THEN <<>> ELSE <<<<b, n>>>>

RECURSIVE Pack(_)
Pack(bytes) ==
    Only({ IF v = <<>> THEN <<>> ELSE Cat(<<<<Head(v), 1>>>>, Pack(Tail(v)))
           : v \in {bytes} })

RECURSIVE TakeBytes(_, _)
TakeBytes(s, k) ==
    Only({ IF n = 0 \/ v = <<>> THEN <<>>
           ELSE IF Head(v)[2] <= n
                THEN <<Head(v)>> \o TakeBytes(Tail(v), n - Head(v)[2])
                ELSE <<<<Head(v)[1], n>>>>
           : v \in {s}, n \in {k} })

RECURSIVE DropBytes(_, _)
DropBytes(s, k) ==
    Only({ IF n = 0 \/ v = <<>> THEN v
           ELSE IF Head(v)[2] <= n
                THEN DropBytes(Tail(v), n - Head(v)[2])
                ELSE <<<<Head(v)[1], Head(v)[2] - n>>>> \o Tail(v)
           : v \in {s}, n \in {k} })

\* the first k bytes of s as a plain sequence (k small)
RECURSIVE Unpack(_, _)
Unpack(s, k) ==
    Only({ IF n = 0 \/ v = <<>> THEN <<>>
           ELSE <<Head(v)[1]>> \o Unpack(DropBytes(v, 1), n - 1)
           : v \in {s}, n \in {k} })

\* ---------------------------------------------------- integer codecs
RECURSIVE to_le_bytes(_, _)
to_le_bytes(n, w) ==
    Only({ IF w = 0 THEN <<>> ELSE <<v % 256>> \o to_le_bytes(v \div 256, w - 1)
           : v \in {n} })

RECURSIVE from_le_bytes(_)
from_le_bytes(b) ==
    Only({ IF v = <<>> THEN 0
           ELSE Only({ IF hi >= 8388608 THEN U64Sat ELSE Head(v) + 256 * hi
                       : hi \in {from_le_bytes(Tail(v))} })
           : v \in {b} })

\* -------------------------------------------------------- serialization
\* bincode (fixed-width integers, trailing bytes allowed): an enum is its
\* variant index as a u32 followed by the variant's fields.
\* The envelope M of the application is modelled by
\*   enum M { Client(u8), Server(u8) }
\* and SocketAddr by its V4 variant (index 0): 4 address bytes and a u16 port.
Roles == {"client", "server"}

Bodies == {0, 7}

Envelopes == [role : Roles, body : Bodies]

VariantIndex(role) == IF role = "client" THEN 0 ELSE 1

SerializeEnvelope(m) ==
    Pack(to_le_bytes(VariantIndex(m.role), 4) \o <<m.body>>)

DeserializeEnvelope(buf) ==
    Only({ IF Avail(v) < 4 THEN <<>>
           ELSE Only({ IF idx \notin {0, 1} \/ Avail(v) < 5 THEN <<>>
                       ELSE <<[role |-> IF idx = 0 THEN "client" ELSE "server",
                               body |-> Unpack(DropBytes(v, 4), 1)[1]]>>
                       : idx \in {from_le_bytes(Unpack(v, 4))} })
           : v \in {buf} })

SerializeSocket(a) ==
    Pack(to_le_bytes(0, 4) \o a.ip \o to_le_bytes(a.port, 2))

DeserializeSocket(buf) ==
    Only({ IF Avail(v) < 4 THEN <<>>
           ELSE Only({ IF idx # 0 \/ Avail(v) < 10 THEN <<>>
                       ELSE <<[ip   |-> Unpack(DropBytes(v, 4), 4),
                               port |-> from_le_bytes(Unpack(DropBytes(v, 8), 2))]>>
                       : idx \in {from_le_bytes(Unpack(v, 4))} })
           : v \in {buf} })

\* a message that holds k bytes (a Vec<u8> of zeros): its length as a u64,
\* then the bytes
SerializeBlob(k) == Cat(Pack(to_le_bytes(k, 8)), Run(0, k))

DeserializeBlob(buf) ==
    Only({ IF Avail(v) < 8 THEN <<>>
           ELSE Only({ IF Avail(v) < 8 + k THEN <<>>
                       ELSE <<[role |-> "blob", body |-> k]>>
                       : k \in {from_le_bytes(Unpack(v, 8))} })
           : v \in {buf} })

\* ------------------------------------------------------ framed channel
\* MessageTransporter::send on the bytes already on the wire: the 8-byte
\* little-endian length, then the encoded message.
send_counting_prefix(wire, enc) ==
    Only({ Cat(Cat(wire, Pack(to_le_bytes(Avail(e) + 8, 8))), e) : e \in {enc} })

send(wire, enc) ==
    Only({ Cat(Cat(wire, Pack(to_le_bytes(Avail(e), 8))), e) : e \in {enc} })

\* MessageTransporter::recv on the bytes that have arrived; eof: no more
\* bytes will arrive (the peer closed, or the socket was shut down).
\* read_exact waits for its bytes (st = "Block") unless eof.
Starved(eof) ==
    IF eof
    THEN [st |-> "Err", kind |-> "UnexpectedEof", msg |-> "", val |-> <<>>,
          rest |-> <<>>]
    ELSE [st |-> "Block", kind |-> "", msg |-> "", val |-> <<>>, rest |-> <<>>]

\* bincode::deserialize at the type the caller names
Deserialize(ty, buf) ==
    IF ty = "SocketMessage" THEN DeserializeSocket(buf)
    ELSE IF ty = "Blob" THEN DeserializeBlob(buf)
    ELSE DeserializeEnvelope(buf)

TooLargeAtLeast(len) == len >= MAX_PACKET_SIZE

TooLarge(len) == len > MAX_PACKET_SIZE

\* after the length is read: the guard, the payload, the decoding
recv_body(len, body, eof, ty) ==
    IF TooLarge(len)
    THEN [st |-> "Err", kind |-> "FileTooLarge",
          msg |-> "Message size cannot exceed", val |-> <<>>, rest |-> body]
    ELSE IF Avail(body) < len THEN Starved(eof)
    ELSE Only({ IF message = <<>>
                THEN [st |-> "Err", kind |-> "InvalidData", msg |-> "bincode",
                      val |-> <<>>, rest |-> DropBytes(body, len)]
                ELSE [st |-> "Ok", kind |-> "", msg |-> "",
                      val |-> message, rest |-> DropBytes(body, len)]
                : message \in {Deserialize(ty, TakeBytes(body, len))} })

recv(wire, eof, ty) ==
    Only({ IF Avail(w) < 8 THEN Starved(eof)
           ELSE Only({ recv_body(len, body, eof, ty)
                       : len \in {from_le_bytes(Unpack(w, 8))},
                         body \in {DropBytes(w, 8)} })
           : w \in {wire} })

\* ------------------------------------------------ directional transports
\* M::ClientMessage: TryFrom<M> and M::ServerMessage: TryFrom<M>
try_into_coercing(m, role) == <<m.body>>

try_into(m, role) == IF m.role = role THEN <<m.body>> ELSE <<>>

TypedRecv(wire, eof, role, complaint) ==
    Only({ IF r.st # "Ok" THEN r
           ELSE Only({ IF message = <<>>
                       THEN [st |-> "Err", kind |-> "InvalidData",
                             msg |-> complaint, val |-> <<>>, rest |-> r.rest]
                       ELSE [r EXCEPT !.val = message]
                       : message \in {try_into(r.val[1], role)} })
           : r \in {recv(wire, eof, "M")} })

ClientsideRecv(wire, eof) ==
    TypedRecv(wire, eof, "server",
              "Received a clientside message from the server")

ServersideRecv(wire, eof) ==
    TypedRecv(wire, eof, "client",
              "Received a serverside message from a client")

\* M::from(message)
ClientsideSendTwice(wire, body) ==
    send(send(wire, SerializeEnvelope([role |-> "client", body |-> body])),
         SerializeEnvelope([role |-> "client", body |-> body]))

ClientsideSend(wire, body) ==
    send(wire, SerializeEnvelope([role |-> "client", body |-> body]))

ServersideSend(wire, body) ==
    send(wire, SerializeEnvelope([role |-> "server", body |-> body]))

\* ===================================================================
\* State
\* ===================================================================
VARIABLES
    \* --- the framing specification: one channel, one sender, one receiver
    chan,       \* bytes written by the sender and not yet read
    eof,        \* the sender has closed its end
    sent,       \* envelope values sent with send, in order
    forged,     \* number of byte strings the peer wrote without send
    got,        \* one entry per completed recv call, in order
    last,       \* the latest recv call: its input and its result
    pend,       \* per sending thread: the payload of a send that wrote its prefix
    \* --- the server: MessageServer, its listener thread, its reader threads
    lpc,        \* listener thread: where it is in listener_thread
    lcur,       \* the connection the listener is handshaking with (0: none)
    backlog,    \* connections established and not yet accepted
    rpc,        \* reader thread of each connection (connection_thread)
    sDrop,      \* drop of the MessageServer handle
    sKill,      \* a stop signal is waiting in the listener's deathswitch
    sSink,      \* the receiver of the server's event channel is alive
    sEv,        \* events sent to the server's sink, per connection
    sOwn,       \* the listener's or reader's transport of the connection is alive
    sApp,       \* the clone given out in Connect: "none", "held", "dropped"
    sEnd,       \* the server's socket: "none", "open", "shut", "closed"
    \* --- the client: MessageClient and its connection thread
    kpc,        \* connection thread: where it is in connection_thread
    kcur,       \* its current connection (0: none)
    streak,     \* connects that failed in a row
    back,       \* why the thread last came back to the head of its loop
    cDrop, cKill, cSink, cEv, cOwn, cApp, cEnd,
    \* --- the connections
    nconn,      \* connections established so far
    c2s,        \* bytes written by the client and not yet read by the server
    s2c,        \* bytes written by the server and not yet read by the client
    wlog,       \* per connection, in order: the frames written and the handshakes read
    ops,        \* operations the applications have made
    faults      \* failures of bind, accept and try_clone so far

fvars == <<chan, eof, sent, forged, got, last, pend>>

svars == <<lpc, lcur, backlog, rpc, sDrop, sKill, sSink, sEv, sOwn, sApp, sEnd>>

kvars == <<kpc, kcur, streak, back, cDrop, cKill, cSink, cEv, cOwn, cApp, cEnd>>

nvars == <<nconn, c2s, s2c, wlog, ops, faults>>

vars == <<fvars, svars, kvars, nvars>>

\* ===================================================================
\* The server, the client and their connections
\* ===================================================================
Conns == 1..MaxConns

\* the address the client is started with, and the address accept reports
\* for the client's end of connection c
ServerAddr == [ip |-> <<10, 0, 0, 1>>, port |-> 7000]

ClientAddr(c) == [ip |-> <<10, 0, 0, 2>>, port |-> 40000 + c]

Event(ev, val, tag) == [ev |-> ev, val |-> val, tag |-> tag]

\* let _ = send_event(Disconnect): the event is sent if the sink takes it
disconnect_events_twice(evs, sink, tag) ==
    IF sink
    THEN evs \o <<Event("Disconnect", <<>>, tag), Event("Disconnect", <<>>, tag)>>
    ELSE evs

disconnect_events(evs, sink, tag) ==
    IF sink THEN Append(evs, Event("Disconnect", <<>>, tag)) ELSE evs

\* an entry of wlog: kind is "handshake", "message" or "raw" for a write,
\* "handshake read" for a handshake frame that recv returned
Written(dir, kind, val) == [dir |-> dir, kind |-> kind, val |-> val]

\* no more bytes will arrive at the server's (client's) end of connection c
SrvEofPeerOnly(c) == cEnd[c] \in {"shut", "closed"}

SrvEof(c) == cEnd[c] \in {"shut", "closed"} \/ sEnd[c] = "shut"

CliEof(c) == sEnd[c] \in {"shut", "closed"} \/ cEnd[c] = "shut"

\* a socket closes when the reader's handle is dropped, whoever else holds one
ReleaseWithReader(end, own, app) == IF ~own THEN "closed" ELSE end

\* a socket closes when the last handle to it is dropped
Release(end, own, app) == IF ~own /\ app # "held" THEN "closed" ELSE end

\* the TcpListener is alive: connects reach its backlog
Listening == lpc \in {"Poll", "Accept", "Handshaking"}

\* the listener thread ends: its TcpListener is dropped and the connections
\* nobody accepted are closed
Unaccepted(ends) ==
    [c \in Conns |->
        IF \E i \in 1..Len(backlog) : backlog[i] = c THEN "closed" ELSE ends[c]]

\* what an application can write through the TcpStream its handle derefs to,
\* other than with send (dir: the direction it writes in)
Junk(dir) ==
    { \* an envelope of the subtype this side must not send
      send(<<>>, SerializeEnvelope(
          [role |-> IF dir = "c2s" THEN "server" ELSE "client", body |-> 7])),
      \* a length prefix above the limit and one byte
      Cat(Pack(to_le_bytes(MAX_PACKET_SIZE + 1, 8)), Run(7, 1)),
      \* a payload that is no envelope
      Cat(Pack(to_le_bytes(5, 8)), Pack(<<2, 0, 0, 0, 7>>)) }

SInit ==
    /\ lpc = "Starting"
    /\ lcur = 0
    /\ backlog = <<>>
    /\ rpc = [c \in Conns |-> "None"]
    /\ sDrop = "held"
    /\ sKill = FALSE
    /\ sSink = TRUE
    /\ sEv = [c \in Conns |-> <<>>]
    /\ sOwn = [c \in Conns |-> FALSE]
    /\ sApp = [c \in Conns |-> "none"]
    /\ sEnd = [c \in Conns |-> "none"]
    /\ kpc = "Idle"
    /\ kcur = 0
    /\ streak = 0
    /\ back = "start"
    /\ cDrop = "held"
    /\ cKill = FALSE
    /\ cSink = TRUE
    /\ cEv = [c \in Conns |-> <<>>]
    /\ cOwn = [c \in Conns |-> FALSE]
    /\ cApp = [c \in Conns |-> "none"]
    /\ cEnd = [c \in Conns |-> "none"]
    /\ nconn = 0
    /\ c2s = [c \in Conns |-> <<>>]
    /\ s2c = [c \in Conns |-> <<>>]
    /\ wlog = [c \in Conns |-> <<>>]
    /\ ops = 0
    /\ faults = 0

\* ------------------------------------------------ MessageServer::listener_thread
\* TcpListener::bind(addr).unwrap(); set_nonblocking(true).unwrap()
listener_bind ==
    /\ lpc = "Starting"
    /\ \E bind \in {"Ok", "Err"} :
          /\ bind = "Err" => faults < MaxFaults
          /\ lpc' = IF bind = "Ok" THEN "Poll" ELSE "Panicked"
          /\ faults' = IF bind = "Ok" THEN faults ELSE faults + 1
    /\ UNCHANGED <<lcur, backlog, rpc, sDrop, sKill, sSink, sEv, sOwn, sApp, sEnd>>
    /\ UNCHANGED <<kvars, nconn, c2s, s2c, wlog, ops>>
    /\ UNCHANGED fvars

\* loop { match listener.accept() .. }: the stop signal is not looked at
listener_poll_ignores_signal ==
    /\ lpc = "Poll"
    /\ lpc' = "Accept"
    /\ UNCHANGED <<lcur, backlog, rpc, sDrop, sKill, sSink, sEv, sOwn, sApp, sEnd>>
    /\ UNCHANGED <<kvars, nvars>>
    /\ UNCHANGED fvars

\* while deathswitch.try_recv().is_err()
listener_poll ==
    /\ lpc = "Poll"
    /\ IF sKill
       THEN /\ lpc' = "Stopped"
            /\ sKill' = FALSE
            /\ backlog' = <<>>
            /\ sEnd' = Unaccepted(sEnd)
       ELSE /\ lpc' = "Accept"
            /\ UNCHANGED <<sKill, backlog, sEnd>>
    /\ UNCHANGED <<lcur, rpc, sDrop, sSink, sEv, sOwn, sApp>>
    /\ UNCHANGED <<kvars, nvars>>
    /\ UNCHANGED fvars

\* Err(e) if e.kind() == ErrorKind::WouldBlock => thread::sleep(100 ms)
listener_would_block ==
    /\ lpc = "Accept"
    /\ backlog = <<>>
    /\ lpc' = "Poll"
    /\ UNCHANGED <<lcur, backlog, rpc, sDrop, sKill, sSink, sEv, sOwn, sApp, sEnd>>
    /\ UNCHANGED <<kvars, nvars>>
    /\ UNCHANGED fvars

\* Ok((stream, socket)) without the handshake: Connect is sent and the reader
\* is spawned as soon as the connection is accepted
listener_accept_no_handshake ==
    /\ lpc = "Accept"
    /\ backlog # <<>>
    /\ sSink
    /\ \E c \in {Head(backlog)} :
           /\ backlog' = Tail(backlog)
           /\ sOwn' = [sOwn EXCEPT ![c] = TRUE]
           /\ sEv' = [sEv EXCEPT ![c] =
                        Append(@, Event("Connect", <<ServerAddr>>, ClientAddr(c).ip))]
           /\ sApp' = [sApp EXCEPT ![c] = "held"]
           /\ rpc' = [rpc EXCEPT ![c] = "Forwarding"]
    /\ lpc' = "Poll"
    /\ UNCHANGED <<lcur, sDrop, sKill, sSink, sEnd>>
    /\ UNCHANGED <<kvars, nvars>>
    /\ UNCHANGED fvars

\* Ok((stream, socket)): the transport is made and the server's view of the
\* peer is sent; the result of the send is dropped
listener_accept ==
    /\ lpc = "Accept"
    /\ backlog # <<>>
    /\ LET c == Head(backlog)
       IN  /\ backlog' = Tail(backlog)
           /\ lcur' = c
           /\ sOwn' = [sOwn EXCEPT ![c] = TRUE]
           /\ IF cEnd[c] = "open"
              THEN /\ s2c' = [s2c EXCEPT ![c] = send(@, SerializeSocket(ClientAddr(c)))]
                   /\ wlog' = [wlog EXCEPT ![c] =
                                  Append(@, Written("s2c", "handshake", <<ClientAddr(c)>>))]
              ELSE UNCHANGED <<s2c, wlog>>
    /\ lpc' = "Handshaking"
    /\ UNCHANGED <<rpc, sDrop, sKill, sSink, sEv, sApp, sEnd>>
    /\ UNCHANGED <<kvars, nconn, c2s, ops, faults>>
    /\ UNCHANGED fvars

\* Err(e) => the error is logged and the loop goes on
listener_accept_error_retries ==
    /\ lpc = "Accept"
    /\ faults < MaxFaults
    /\ faults' = faults + 1
    /\ lpc' = "Poll"
    /\ UNCHANGED <<lcur, backlog, rpc, sDrop, sKill, sSink, sEv, sOwn, sApp, sEnd>>
    /\ UNCHANGED <<kvars, nconn, c2s, s2c, wlog, ops>>
    /\ UNCHANGED fvars

\* Err(e) => panic!()
listener_accept_error ==
    /\ lpc = "Accept"
    /\ faults < MaxFaults
    /\ faults' = faults + 1
    /\ lpc' = "Panicked"
    /\ backlog' = <<>>
    /\ sEnd' = Unaccepted(sEnd)
    /\ UNCHANGED <<lcur, rpc, sDrop, sKill, sSink, sEv, sOwn, sApp>>
    /\ UNCHANGED <<kvars, nconn, c2s, s2c, wlog, ops>>
    /\ UNCHANGED fvars

\* the handshake recv fails and the listener reports the connection as ended
listener_handshake_failed_reports ==
    /\ lpc = "Handshaking"
    /\ \E c \in {lcur} : \E r \in {recv(c2s[c], SrvEof(c), "SocketMessage")} :
           /\ r.st = "Err"
           /\ c2s' = [c2s EXCEPT ![c] = r.rest]
           /\ sOwn' = [sOwn EXCEPT ![c] = FALSE]
           /\ sEnd' = [sEnd EXCEPT ![c] = "closed"]
           /\ sEv' = [sEv EXCEPT ![c] = disconnect_events(@, sSink, ClientAddr(c).ip)]
    /\ lpc' = "Poll"
    /\ lcur' = 0
    /\ UNCHANGED <<backlog, rpc, sDrop, sKill, sSink, sApp>>
    /\ UNCHANGED <<kvars, nconn, s2c, wlog, ops, faults>>
    /\ UNCHANGED fvars

\* let Ok(SocketMessage(my_socket_addr)) = transport.0.recv() else { continue }
listener_handshake_failed ==
    /\ lpc = "Handshaking"
    /\ \E c \in {lcur} : \E r \in {recv(c2s[c], SrvEof(c), "SocketMessage")} :
           /\ r.st = "Err"
           /\ c2s' = [c2s EXCEPT ![c] = r.rest]
           /\ sOwn' = [sOwn EXCEPT ![c] = FALSE]
           /\ sEnd' = [sEnd EXCEPT ![c] = "closed"]
    /\ lpc' = "Poll"
    /\ lcur' = 0
    /\ UNCHANGED <<backlog, rpc, sDrop, sKill, sSink, sEv, sApp>>
    /\ UNCHANGED <<kvars, nconn, s2c, wlog, ops, faults>>
    /\ UNCHANGED fvars

\* the handshake is received and the thread panics: cause "clone" is
\* transport.try_clone().unwrap() failing, cause "sink" is
\* event_sender.send(Connect).unwrap() with the receiver gone
listener_connect_panic(cause) ==
    /\ lpc = "Handshaking"
    /\ cause = "sink" => ~sSink
    /\ cause = "clone" => faults < MaxFaults
    /\ faults' = IF cause = "clone" THEN faults + 1 ELSE faults
    /\ \E c \in {lcur} : \E r \in {recv(c2s[c], SrvEof(c), "SocketMessage")} :
           /\ r.st = "Ok"
           /\ c2s' = [c2s EXCEPT ![c] = r.rest]
           /\ sOwn' = [sOwn EXCEPT ![c] = FALSE]
           /\ sEnd' = [Unaccepted(sEnd) EXCEPT ![c] = "closed"]
    /\ lpc' = "Panicked"
    /\ lcur' = 0
    /\ backlog' = <<>>
    /\ UNCHANGED <<rpc, sDrop, sKill, sSink, sEv, sApp>>
    /\ UNCHANGED <<kvars, nconn, s2c, wlog, ops>>
    /\ UNCHANGED fvars

\* the handshake is received and dropped: Connect carries the address that
\* accept reported for the peer
listener_connect_reports_peer ==
    /\ lpc = "Handshaking"
    /\ sSink
    /\ \E c \in {lcur} : \E r \in {recv(c2s[c], SrvEof(c), "SocketMessage")} :
           /\ r.st = "Ok"
           /\ c2s' = [c2s EXCEPT ![c] = r.rest]
           /\ sEv' = [sEv EXCEPT ![c] =
                        Append(@, Event("Connect", <<ClientAddr(c)>>, ClientAddr(c).ip))]
           /\ sApp' = [sApp EXCEPT ![c] = "held"]
           /\ rpc' = [rpc EXCEPT ![c] = "Forwarding"]
           /\ wlog' = [wlog EXCEPT ![c] =
                          Append(@, Written("c2s", "handshake read", r.val))]
    /\ lpc' = "Poll"
    /\ lcur' = 0
    /\ UNCHANGED <<backlog, sDrop, sKill, sSink, sOwn, sEnd>>
    /\ UNCHANGED <<kvars, nconn, s2c, ops, faults>>
    /\ UNCHANGED fvars

\* the handshake is received, Connect is sent with a clone of the transport
\* and the reader thread is spawned
listener_connect ==
    /\ lpc = "Handshaking"
    /\ sSink
    /\ \E c \in {lcur} : \E r \in {recv(c2s[c], SrvEof(c), "SocketMessage")} :
           /\ r.st = "Ok"
           /\ c2s' = [c2s EXCEPT ![c] = r.rest]
           /\ sEv' = [sEv EXCEPT ![c] =
                        Append(@, Event("Connect", r.val, ClientAddr(c).ip))]
           /\ sApp' = [sApp EXCEPT ![c] = "held"]
           /\ rpc' = [rpc EXCEPT ![c] = "Forwarding"]
           /\ wlog' = [wlog EXCEPT ![c] =
                          Append(@, Written("c2s", "handshake read", r.val))]
    /\ lpc' = "Poll"
    /\ lcur' = 0
    /\ UNCHANGED <<backlog, sDrop, sKill, sSink, sOwn, sEnd>>
    /\ UNCHANGED <<kvars, nconn, s2c, ops, faults>>
    /\ UNCHANGED fvars

\* ---------------------------------------------- MessageServer::connection_thread
\* send_event(Message(transport.recv::<M>()?)), the sink alive
reader_message(c) ==
    /\ rpc[c] = "Forwarding"
    /\ sSink
    /\ \E r \in {ServersideRecv(c2s[c], SrvEof(c))} :
           /\ r.st = "Ok"
           /\ c2s' = [c2s EXCEPT ![c] = r.rest]
           /\ sEv' = [sEv EXCEPT ![c] =
                        Append(@, Event("Message", r.val, ClientAddr(c).ip))]
    /\ UNCHANGED <<lpc, lcur, backlog, rpc, sDrop, sKill, sSink, sOwn, sApp, sEnd>>
    /\ UNCHANGED <<kvars, nconn, s2c, wlog, ops, faults>>
    /\ UNCHANGED fvars

\* recv fails: a frame that was read and refused (InvalidData) is skipped and
\* the loop goes on; any other failure ends the thread as reader_disconnect does
reader_disconnect_skips_frame(c) ==
    /\ rpc[c] = "Forwarding"
    /\ \E r \in {ServersideRecv(c2s[c], SrvEof(c))} :
        \E skip \in {r.st = "Err" /\ r.kind = "InvalidData"} :
           /\ r.st = "Err" \/ (r.st = "Ok" /\ ~sSink)
           /\ c2s' = [c2s EXCEPT ![c] = r.rest]
           /\ sEv' = [sEv EXCEPT ![c] =
                        IF skip THEN @ ELSE disconnect_events(@, sSink, ClientAddr(c).ip)]
           /\ rpc' = [rpc EXCEPT ![c] = IF skip THEN @ ELSE "Done"]
           /\ sOwn' = [sOwn EXCEPT ![c] = skip]
           /\ sEnd' = [sEnd EXCEPT ![c] = IF skip THEN @ ELSE Release(@, FALSE, sApp[c])]
    /\ UNCHANGED <<lpc, lcur, backlog, sDrop, sKill, sSink, sApp>>
    /\ UNCHANGED <<kvars, nconn, s2c, wlog, ops, faults>>
    /\ UNCHANGED fvars

\* recv fails: Disconnect is sent if it can be and the thread ends; a message
\* that the sink does not take is dropped and the loop goes on
reader_disconnect_keeps_reading(c) ==
    /\ rpc[c] = "Forwarding"
    /\ \E r \in {ServersideRecv(c2s[c], SrvEof(c))} :
           /\ r.st = "Err" \/ (r.st = "Ok" /\ ~sSink)
           /\ c2s' = [c2s EXCEPT ![c] = r.rest]
           /\ sEv' = [sEv EXCEPT ![c] =
                        IF r.st = "Err"
                        THEN disconnect_events(@, sSink, ClientAddr(c).ip) ELSE @]
           /\ rpc' = [rpc EXCEPT ![c] = IF r.st = "Err" THEN "Done" ELSE @]
           /\ sOwn' = [sOwn EXCEPT ![c] = r.st # "Err"]
           /\ sEnd' = [sEnd EXCEPT ![c] =
                         IF r.st = "Err" THEN Release(@, FALSE, sApp[c]) ELSE @]
    /\ UNCHANGED <<lpc, lcur, backlog, sDrop, sKill, sSink, sApp>>
    /\ UNCHANGED <<kvars, nconn, s2c, wlog, ops, faults>>
    /\ UNCHANGED fvars

\* recv fails, or the sink is gone when the message is to be sent
\* (ConnectionAborted): Disconnect is sent if it can be, the thread ends and
\* its transport is dropped
reader_disconnect(c) ==
    /\ rpc[c] = "Forwarding"
    /\ \E r \in {ServersideRecv(c2s[c], SrvEof(c))} :
           /\ r.st = "Err" \/ (r.st = "Ok" /\ ~sSink)
           /\ c2s' = [c2s EXCEPT ![c] = r.rest]
    /\ sEv' = [sEv EXCEPT ![c] = disconnect_events(@, sSink, ClientAddr(c).ip)]
    /\ rpc' = [rpc EXCEPT ![c] = "Done"]
    /\ sOwn' = [sOwn EXCEPT ![c] = FALSE]
    /\ sEnd' = [sEnd EXCEPT ![c] = Release(@, FALSE, sApp[c])]
    /\ UNCHANGED <<lpc, lcur, backlog, sDrop, sKill, sSink, sApp>>
    /\ UNCHANGED <<kvars, nconn, s2c, wlog, ops, faults>>
    /\ UNCHANGED fvars

\* ------------------------------------------------------ Drop for MessageServer
\* self.thread_kill.send(()).unwrap()
server_drop_signal ==
    /\ sDrop = "held"
    /\ IF lpc \in {"Stopped", "Panicked"}
       THEN sDrop' = "panicked" /\ UNCHANGED sKill
       ELSE sDrop' = "joining" /\ sKill' = TRUE
    /\ UNCHANGED <<lpc, lcur, backlog, rpc, sSink, sEv, sOwn, sApp, sEnd>>
    /\ UNCHANGED <<kvars, nvars>>
    /\ UNCHANGED fvars

\* self.listener_thread.take().unwrap().join().unwrap()
server_drop_join ==
    /\ sDrop = "joining"
    /\ lpc \in {"Stopped", "Panicked"}
    /\ sDrop' = IF lpc = "Stopped" THEN "returned" ELSE "panicked"
    /\ UNCHANGED <<lpc, lcur, backlog, rpc, sKill, sSink, sEv, sOwn, sApp, sEnd>>
    /\ UNCHANGED <<kvars, nvars>>
    /\ UNCHANGED fvars

\* ---------------------------------------------- MessageClient::connection_thread
\* loop { .. }: the stop signal is not looked at between two iterations
client_poll_ignores_signal ==
    /\ kpc = "Idle"
    /\ kpc' = "Connecting"
    /\ UNCHANGED <<kcur, streak, back, cDrop, cKill, cSink, cEv, cOwn, cApp, cEnd>>
    /\ UNCHANGED <<svars, nvars>>
    /\ UNCHANGED fvars

\* while deathswitch.try_recv().is_err()
client_poll ==
    /\ kpc = "Idle"
    /\ IF cKill
       THEN kpc' = "Exited" /\ cKill' = FALSE
       ELSE kpc' = "Connecting" /\ UNCHANGED cKill
    /\ UNCHANGED <<kcur, streak, back, cDrop, cSink, cEv, cOwn, cApp, cEnd>>
    /\ UNCHANGED <<svars, nvars>>
    /\ UNCHANGED fvars

\* TcpStream::connect(socket)? fails and the error leaves the thread function
client_connect_failed_returns ==
    /\ kpc = "Connecting"
    /\ kpc' = "Exited"
    /\ streak' = IF streak < MaxStreak THEN streak + 1 ELSE streak
    /\ back' = "connect"
    /\ UNCHANGED <<kcur, cDrop, cKill, cSink, cEv, cOwn, cApp, cEnd>>
    /\ UNCHANGED <<svars, nvars>>
    /\ UNCHANGED fvars

\* TcpStream::connect(socket)? fails: the outer try block ends, the loop goes on
client_connect_failed ==
    /\ kpc = "Connecting"
    /\ kpc' = "Idle"
    /\ streak' = IF streak < MaxStreak THEN streak + 1 ELSE streak
    /\ back' = "connect"
    /\ UNCHANGED <<kcur, cDrop, cKill, cSink, cEv, cOwn, cApp, cEnd>>
    /\ UNCHANGED <<svars, nvars>>
    /\ UNCHANGED fvars

\* TcpStream::connect(socket)? succeeds, then transport.try_clone().unwrap()
client_connect ==
    /\ kpc = "Connecting"
    /\ Listening
    /\ nconn < MaxConns
    /\ LET c == nconn + 1
       IN  /\ nconn' = c
           /\ backlog' = Append(backlog, c)
           /\ sEnd' = [sEnd EXCEPT ![c] = "open"]
           /\ kcur' = c
           /\ \E try_clone \in {"Ok", "Err"} :
                 IF try_clone = "Ok"
                 THEN /\ kpc' = "Handshaking"
                      /\ cOwn' = [cOwn EXCEPT ![c] = TRUE]
                      /\ cEnd' = [cEnd EXCEPT ![c] = "open"]
                      /\ UNCHANGED faults
                 ELSE /\ faults < MaxFaults
                      /\ faults' = faults + 1
                      /\ kpc' = "Panicked"
                      /\ cEnd' = [cEnd EXCEPT ![c] = "closed"]
                      /\ UNCHANGED cOwn
    /\ streak' = 0
    /\ back' = "start"
    /\ UNCHANGED <<cDrop, cKill, cSink, cEv, cApp>>
    /\ UNCHANGED <<lpc, lcur, rpc, sDrop, sKill, sSink, sEv, sOwn, sApp>>
    /\ UNCHANGED <<c2s, s2c, wlog, ops>>
    /\ UNCHANGED fvars

\* let Ok(SocketMessage(my_socket_addr)) = transport.0.recv() else { continue }
client_handshake_failed ==
    /\ kpc = "Handshaking"
    /\ \E c \in {kcur} : \E r \in {recv(s2c[c], CliEof(c), "SocketMessage")} :
           /\ r.st = "Err"
           /\ s2c' = [s2c EXCEPT ![c] = r.rest]
           /\ cOwn' = [cOwn EXCEPT ![c] = FALSE]
           /\ cEnd' = [cEnd EXCEPT ![c] = "closed"]
    /\ kpc' = "Idle"
    /\ back' = "handshake"
    /\ UNCHANGED <<kcur, streak, cDrop, cKill, cSink, cEv, cApp>>
    /\ UNCHANGED <<svars, nconn, c2s, wlog, ops, faults>>
    /\ UNCHANGED fvars

\* the address the client puts in its handshake frame
client_handshake_addr_own(c) == ClientAddr(c)

client_handshake_addr(c) == ServerAddr

\* the handshake is received, the client's handshake is sent (the result of
\* the send is dropped) and Connect is sent with the cloned transport;
\* event_sender.send(Connect).unwrap() panics when the receiver is gone
client_handshake ==
    /\ kpc = "Handshaking"
    /\ \E c \in {kcur} : \E r \in {recv(s2c[c], CliEof(c), "SocketMessage")} :
           /\ r.st = "Ok"
           /\ s2c' = [s2c EXCEPT ![c] = r.rest]
           /\ IF sEnd[c] = "open"
              THEN /\ c2s' = [c2s EXCEPT ![c] =
                                send(@, SerializeSocket(client_handshake_addr(c)))]
                   /\ wlog' = [wlog EXCEPT ![c] =
                                  @ \o <<Written("s2c", "handshake read", r.val),
                                         Written("c2s", "handshake",
                                                 <<client_handshake_addr(c)>>)>>]
              ELSE /\ wlog' = [wlog EXCEPT ![c] =
                                  Append(@, Written("s2c", "handshake read", r.val))]
                   /\ UNCHANGED c2s
           /\ IF cSink
              THEN /\ cEv' = [cEv EXCEPT ![c] = Append(@, Event("Connect", r.val, <<>>))]
                   /\ cApp' = [cApp EXCEPT ![c] = "held"]
                   /\ kpc' = "Forwarding"
                   /\ UNCHANGED <<cOwn, cEnd>>
              ELSE /\ kpc' = "Panicked"
                   /\ cOwn' = [cOwn EXCEPT ![c] = FALSE]
                   /\ cEnd' = [cEnd EXCEPT ![c] = "closed"]
                   /\ UNCHANGED <<cEv, cApp>>
    /\ UNCHANGED <<kcur, streak, back, cDrop, cKill, cSink>>
    /\ UNCHANGED <<svars, nconn, ops, faults>>
    /\ UNCHANGED fvars

\* the handshake is received and the client's own send fails with an I/O
\* error on a connection that stays up: let _ = drops the error and Connect
\* is sent all the same
client_handshake_send_failed ==
    /\ kpc = "Handshaking"
    /\ faults < MaxFaults
    /\ faults' = faults + 1
    /\ \E c \in {kcur} : \E r \in {recv(s2c[c], CliEof(c), "SocketMessage")} :
           /\ r.st = "Ok"
           /\ s2c' = [s2c EXCEPT ![c] = r.rest]
           /\ wlog' = [wlog EXCEPT ![c] =
                          Append(@, Written("s2c", "handshake read", r.val))]
           /\ IF cSink
              THEN /\ cEv' = [cEv EXCEPT ![c] = Append(@, Event("Connect", r.val, <<>>))]
                   /\ cApp' = [cApp EXCEPT ![c] = "held"]
                   /\ kpc' = "Forwarding"
                   /\ UNCHANGED <<cOwn, cEnd>>
              ELSE /\ kpc' = "Panicked"
                   /\ cOwn' = [cOwn EXCEPT ![c] = FALSE]
                   /\ cEnd' = [cEnd EXCEPT ![c] = "closed"]
                   /\ UNCHANGED <<cEv, cApp>>
    /\ UNCHANGED <<kcur, streak, back, cDrop, cKill, cSink>>
    /\ UNCHANGED <<svars, nconn, c2s, ops>>
    /\ UNCHANGED fvars

\* event_sender.send(Message(transport.recv::<M>()?)), the sink alive
client_message ==
    /\ kpc = "Forwarding"
    /\ cSink
    /\ \E c \in {kcur} : \E r \in {ClientsideRecv(s2c[c], CliEof(c))} :
           /\ r.st = "Ok"
           /\ s2c' = [s2c EXCEPT ![c] = r.rest]
           /\ cEv' = [cEv EXCEPT ![c] = Append(@, Event("Message", r.val, <<>>))]
    /\ UNCHANGED <<kpc, kcur, streak, back, cDrop, cKill, cSink, cOwn, cApp, cEnd>>
    /\ UNCHANGED <<svars, nconn, c2s, wlog, ops, faults>>
    /\ UNCHANGED fvars

\* recv fails: Disconnect is sent if it can be and the thread function returns
client_disconnect_returns ==
    /\ kpc = "Forwarding"
    /\ \E c \in {kcur} : \E r \in {ClientsideRecv(s2c[c], CliEof(c))} :
           /\ r.st = "Err" \/ (r.st = "Ok" /\ ~cSink)
           /\ s2c' = [s2c EXCEPT ![c] = r.rest]
           /\ cEv' = [cEv EXCEPT ![c] = disconnect_events(@, cSink, <<>>)]
           /\ cOwn' = [cOwn EXCEPT ![c] = FALSE]
           /\ cEnd' = [cEnd EXCEPT ![c] = Release(@, FALSE, cApp[c])]
    /\ kpc' = "Exited"
    /\ back' = "disconnect"
    /\ UNCHANGED <<kcur, streak, cDrop, cKill, cSink, cApp>>
    /\ UNCHANGED <<svars, nconn, c2s, wlog, ops, faults>>
    /\ UNCHANGED fvars

\* recv fails, or the sink is gone when the message is to be sent: Disconnect
\* is sent if it can be, the transport is dropped and the outer loop goes on
client_disconnect ==
    /\ kpc = "Forwarding"
    /\ \E c \in {kcur} : \E r \in {ClientsideRecv(s2c[c], CliEof(c))} :
           /\ r.st = "Err" \/ (r.st = "Ok" /\ ~cSink)
           /\ s2c' = [s2c EXCEPT ![c] = r.rest]
           /\ cEv' = [cEv EXCEPT ![c] = disconnect_events(@, cSink, <<>>)]
           /\ cOwn' = [cOwn EXCEPT ![c] = FALSE]
           /\ cEnd' = [cEnd EXCEPT ![c] = Release(@, FALSE, cApp[c])]
    /\ kpc' = "Idle"
    /\ back' = "disconnect"
    /\ UNCHANGED <<kcur, streak, cDrop, cKill, cSink, cApp>>
    /\ UNCHANGED <<svars, nconn, c2s, wlog, ops, faults>>
    /\ UNCHANGED fvars

\* ------------------------------------------------------ Drop for MessageClient
\* self.thread_kill.send(()).unwrap()
client_drop_signal ==
    /\ cDrop = "held"
    /\ IF kpc \in {"Exited", "Panicked"}
       THEN cDrop' = "panicked" /\ UNCHANGED cKill
       ELSE cDrop' = "joining" /\ cKill' = TRUE
    /\ UNCHANGED <<kpc, kcur, streak, back, cSink, cEv, cOwn, cApp, cEnd>>
    /\ UNCHANGED <<svars, nvars>>
    /\ UNCHANGED fvars

\* the JoinHandle is dropped without join: the drop returns at once
client_drop_detaches ==
    /\ cDrop = "joining"
    /\ cDrop' = "returned"
    /\ UNCHANGED <<kpc, kcur, streak, back, cKill, cSink, cEv, cOwn, cApp, cEnd>>
    /\ UNCHANGED <<svars, nvars>>
    /\ UNCHANGED fvars

\* self.connection_thread.take().unwrap().join().unwrap()
client_drop_join ==
    /\ cDrop = "joining"
    /\ kpc \in {"Exited", "Panicked"}
    /\ cDrop' = IF kpc = "Exited" THEN "returned" ELSE "panicked"
    /\ UNCHANGED <<kpc, kcur, streak, back, cKill, cSink, cEv, cOwn, cApp, cEnd>>
    /\ UNCHANGED <<svars, nvars>>
    /\ UNCHANGED fvars

\* ------------------------------------------------------------ the applications
\* ClientsideTransport::send on the handle of the client's Connect event
client_app_send(c, body) ==
    /\ cApp[c] = "held"
    /\ ops < MaxOps
    /\ cEnd[c] = "open" /\ sEnd[c] = "open"
    /\ c2s' = [c2s EXCEPT ![c] = ClientsideSend(@, body)]
    /\ wlog' = [wlog EXCEPT ![c] = Append(@, Written("c2s", "message", <<body>>))]
    /\ ops' = ops + 1
    /\ UNCHANGED <<svars, kvars, nconn, s2c, faults>>
    /\ UNCHANGED fvars

\* ServersideTransport::send on the handle of the server's Connect event
server_app_send(c, body) ==
    /\ sApp[c] = "held"
    /\ ops < MaxOps
    /\ cEnd[c] = "open" /\ sEnd[c] = "open"
    /\ s2c' = [s2c EXCEPT ![c] = ServersideSend(@, body)]
    /\ wlog' = [wlog EXCEPT ![c] = Append(@, Written("s2c", "message", <<body>>))]
    /\ ops' = ops + 1
    /\ UNCHANGED <<svars, kvars, nconn, c2s, faults>>
    /\ UNCHANGED fvars

\* a write on the TcpStream the handle derefs to
client_app_write(c, bytes) ==
    /\ cApp[c] = "held"
    /\ ops < MaxOps
    /\ cEnd[c] = "open" /\ sEnd[c] = "open"
    /\ c2s' = [c2s EXCEPT ![c] = Cat(@, bytes)]
    /\ wlog' = [wlog EXCEPT ![c] = Append(@, Written("c2s", "raw", <<>>))]
    /\ ops' = ops + 1
    /\ UNCHANGED <<svars, kvars, nconn, s2c, faults>>
    /\ UNCHANGED fvars

server_app_write(c, bytes) ==
    /\ sApp[c] = "held"
    /\ ops < MaxOps
    /\ cEnd[c] = "open" /\ sEnd[c] = "open"
    /\ s2c' = [s2c EXCEPT ![c] = Cat(@, bytes)]
    /\ wlog' = [wlog EXCEPT ![c] = Append(@, Written("s2c", "raw", <<>>))]
    /\ ops' = ops + 1
    /\ UNCHANGED <<svars, kvars, nconn, c2s, faults>>
    /\ UNCHANGED fvars

\* MessageTransporter::shutdown
client_app_shutdown(c) ==
    /\ ops < MaxOps
    /\ ops' = ops + 1
    /\ cApp[c] = "held"
    /\ cEnd[c] = "open"
    /\ cEnd' = [cEnd EXCEPT ![c] = "shut"]
    /\ UNCHANGED <<kpc, kcur, streak, back, cDrop, cKill, cSink, cEv, cOwn, cApp>>
    /\ UNCHANGED <<svars, nconn, c2s, s2c, wlog, faults>>
    /\ UNCHANGED fvars

server_app_shutdown(c) ==
    /\ ops < MaxOps
    /\ ops' = ops + 1
    /\ sApp[c] = "held"
    /\ sEnd[c] = "open"
    /\ sEnd' = [sEnd EXCEPT ![c] = "shut"]
    /\ UNCHANGED <<lpc, lcur, backlog, rpc, sDrop, sKill, sSink, sEv, sOwn, sApp>>
    /\ UNCHANGED <<kvars, nconn, c2s, s2c, wlog, faults>>
    /\ UNCHANGED fvars

\* the application drops the handle it was given
client_app_drop(c) ==
    /\ ops < MaxOps
    /\ ops' = ops + 1
    /\ cApp[c] = "held"
    /\ cApp' = [cApp EXCEPT ![c] = "dropped"]
    /\ cEnd' = [cEnd EXCEPT ![c] = Release(@, cOwn[c], "dropped")]
    /\ UNCHANGED <<kpc, kcur, streak, back, cDrop, cKill, cSink, cEv, cOwn>>
    /\ UNCHANGED <<svars, nconn, c2s, s2c, wlog, faults>>
    /\ UNCHANGED fvars

server_app_drop(c) ==
    /\ ops < MaxOps
    /\ ops' = ops + 1
    /\ sApp[c] = "held"
    /\ sApp' = [sApp EXCEPT ![c] = "dropped"]
    /\ sEnd' = [sEnd EXCEPT ![c] = Release(@, sOwn[c], "dropped")]
    /\ UNCHANGED <<lpc, lcur, backlog, rpc, sDrop, sKill, sSink, sEv, sOwn>>
    /\ UNCHANGED <<kvars, nconn, c2s, s2c, wlog, faults>>
    /\ UNCHANGED fvars

\* the application drops the receiver of its event channel
server_sink_drop ==
    /\ ops < MaxOps
    /\ ops' = ops + 1
    /\ sSink
    /\ sSink' = FALSE
    /\ UNCHANGED <<lpc, lcur, backlog, rpc, sDrop, sKill, sEv, sOwn, sApp, sEnd>>
    /\ UNCHANGED <<kvars, nconn, c2s, s2c, wlog, faults>>
    /\ UNCHANGED fvars

client_sink_drop ==
    /\ ops < MaxOps
    /\ ops' = ops + 1
    /\ cSink
    /\ cSink' = FALSE
    /\ UNCHANGED <<kpc, kcur, streak, back, cDrop, cKill, cEv, cOwn, cApp, cEnd>>
    /\ UNCHANGED <<svars, nconn, c2s, s2c, wlog, faults>>
    /\ UNCHANGED fvars

ListenerStep ==
    \/ listener_bind
    \/ listener_poll
    \/ listener_would_block
    \/ listener_accept
    \/ listener_accept_error
    \/ listener_handshake_failed
    \/ \E cause \in {"clone", "sink"} : listener_connect_panic(cause)
    \/ listener_connect

ReaderStep(c) == reader_message(c) \/ reader_disconnect(c)

ClientStep ==
    \/ client_poll
    \/ client_connect_failed
    \/ client_connect
    \/ client_handshake_failed
    \/ client_handshake
    \/ client_message
    \/ client_disconnect

SysNext ==
    \/ ListenerStep
    \/ \E c \in Conns : ReaderStep(c)
    \/ ClientStep
    \/ server_drop_signal
    \/ server_drop_join
    \/ client_drop_signal
    \/ client_drop_join
    \/ \E c \in Conns, body \in Bodies : client_app_send(c, body)
    \/ \E c \in Conns, body \in Bodies : server_app_send(c, body)
    \/ \E c \in Conns, bytes \in Junk("c2s") : client_app_write(c, bytes)
    \/ \E c \in Conns, bytes \in Junk("s2c") : server_app_write(c, bytes)
    \/ \E c \in Conns : client_app_shutdown(c)
    \/ \E c \in Conns : server_app_shutdown(c)
    \/ \E c \in Conns : client_app_drop(c)
    \/ \E c \in Conns : server_app_drop(c)
    \/ server_sink_drop
    \/ client_sink_drop

\* ===================================================================
\* The framing specification: send and recv as functions of the bytes
\* ===================================================================
\* what a peer that does not use send may write: a length prefix and bytes
Forgeries ==
    { \* prefix one above the limit, three payload bytes
      Cat(Pack(to_le_bytes(MAX_PACKET_SIZE + 1, 8)), Run(7, 3)),
      \* prefix 2^32, a valid envelope behind it
      Cat(Pack(<<0, 0, 0, 0, 1, 0, 0, 0>>), SerializeEnvelope([role |-> "client", body |-> 7])),
      \* prefix 2^64 - 1, nothing behind it
      Run(255, 8),
      \* prefix exactly the limit, that many zero bytes
      Cat(Pack(to_le_bytes(MAX_PACKET_SIZE, 8)), Run(0, MAX_PACKET_SIZE)),
      \* prefix exactly the limit, that many bytes that decode to nothing
      Cat(Pack(to_le_bytes(MAX_PACKET_SIZE, 8)), Run(9, MAX_PACKET_SIZE)),
      \* prefix one below the limit
      Cat(Pack(to_le_bytes(MAX_PACKET_SIZE - 1, 8)), Run(0, MAX_PACKET_SIZE - 1)),
      \* empty payload
      Pack(to_le_bytes(0, 8)),
      \* an unknown variant index
      Cat(Pack(to_le_bytes(5, 8)), Pack(<<2, 0, 0, 0, 7>>)),
      \* a valid envelope and one trailing byte
      Cat(Pack(to_le_bytes(6, 8)), Pack(<<1, 0, 0, 0, 7, 9>>)) }

\* the threads that hold a clone of the sending transport
Senders == 1..MaxSenders

NoCall ==
    [op |-> "none", pre |-> <<>>, eof |-> FALSE,
     res |-> [st |-> "Block", kind |-> "", msg |-> "", val |-> <<>>, rest |-> <<>>]]

FInit ==
    /\ chan = <<>>
    /\ eof = FALSE
    /\ sent = <<>>
    /\ forged = 0
    /\ got = <<>>
    /\ last = NoCall
    /\ pend = [t \in Senders |-> <<>>]

\* MessageTransporter::send of an envelope value
FSend(m) ==
    /\ ~eof
    /\ Len(sent) + forged < MaxFrames
    /\ chan' = send(chan, SerializeEnvelope(m))
    /\ sent' = Append(sent, m)
    /\ UNCHANGED <<eof, forged, got, last, pend>>
    /\ UNCHANGED <<svars, kvars, nvars>>

\* the peer writes bytes of its own making
FForge(bytes) ==
    /\ ~eof
    /\ Len(sent) + forged < MaxFrames
    /\ chan' = Cat(chan, bytes)
    /\ forged' = forged + 1
    /\ UNCHANGED <<eof, sent, got, last, pend>>
    /\ UNCHANGED <<svars, kvars, nvars>>

FClose ==
    /\ ~eof
    /\ eof' = TRUE
    /\ UNCHANGED <<chan, sent, forged, got, last, pend>>
    /\ UNCHANGED <<svars, kvars, nvars>>

\* a receive call that returns: the channel loses what the call consumed
FCall(op, r) ==
    /\ last.res.kind # "UnexpectedEof"
    /\ Len(got) < MaxCalls
    /\ r.st # "Block"
    /\ chan' = r.rest
    /\ got' = Append(got, [op |-> op, st |-> r.st, kind |-> r.kind, val |-> r.val])
    /\ last' = [op |-> op, pre |-> chan, eof |-> eof, res |-> r]
    /\ UNCHANGED <<eof, sent, forged, pend>>
    /\ UNCHANGED <<svars, kvars, nvars>>

FRecv == FCall("recv", recv(chan, eof, "M"))

FRecvClientside == FCall("ClientsideTransport::recv", ClientsideRecv(chan, eof))

FRecvServerside == FCall("ServersideTransport::recv", ServersideRecv(chan, eof))

\* messages of any size: the sizes of the blobs sent
BlobSizes == {0, 3, MAX_PACKET_SIZE - 9, MAX_PACKET_SIZE - 8, MAX_PACKET_SIZE - 7}

\* MessageTransporter::send of a blob of k bytes
FSendBlob(k) ==
    /\ ~eof
    /\ Len(sent) < MaxFrames
    /\ chan' = send(chan, SerializeBlob(k))
    /\ sent' = Append(sent, [role |-> "blob", body |-> k])
    /\ UNCHANGED <<eof, forged, got, last, pend>>
    /\ UNCHANGED <<svars, kvars, nvars>>

FRecvBlob == FCall("recv", recv(chan, eof, "Blob"))

\* MessageTransporter::send by thread t on its clone, first half:
\* bincode::serialize(message) and stream.write_all(&len.to_le_bytes())
send_prefix(t, m) ==
    /\ pend[t] = <<>>
    /\ Len(sent) < MaxFrames
    /\ \E buffer \in {SerializeEnvelope(m)} :
           /\ chan' = Cat(chan, Pack(to_le_bytes(Avail(buffer), 8)))
           /\ pend' = [pend EXCEPT ![t] = <<buffer>>]
    /\ sent' = Append(sent, m)
    /\ UNCHANGED <<eof, forged, got, last>>
    /\ UNCHANGED <<svars, kvars, nvars>>

\* second half: stream.write_all(&buffer)
send_payload(t) ==
    /\ pend[t] # <<>>
    /\ chan' = Cat(chan, pend[t][1])
    /\ pend' = [pend EXCEPT ![t] = <<>>]
    /\ UNCHANGED <<eof, sent, forged, got, last>>
    /\ UNCHANGED <<svars, kvars, nvars>>

ConcNext ==
    \/ \E t \in Senders : \E m \in Envelopes : send_prefix(t, m)
    \/ \E t \in Senders : send_payload(t)
    \/ FRecv

SendNext ==
    \/ \E k \in BlobSizes : FSendBlob(k)
    \/ FClose
    \/ FRecvBlob

FNext ==
    \/ \E m \in Envelopes : FSend(m)
    \/ \E bytes \in Forgeries : FForge(bytes)
    \/ FClose
    \/ FRecv
    \/ FRecvClientside
    \/ FRecvServerside

\* ===================================================================
\* Specifications
\* ===================================================================
Init == FInit /\ SInit

\* the server and the client, with their applications
Next == SysNext

Spec == Init /\ [][Next]_vars

\* the same, and the send of a handshake may fail
IoNext == Next \/ client_handshake_send_failed

IoSpec == Init /\ [][IoNext]_vars

\* the threads are scheduled: a thread that can take a step takes one
LiveSpec ==
    /\ Spec
    /\ WF_vars(ListenerStep)
    /\ WF_vars(ClientStep)
    /\ \A c \in Conns : WF_vars(ReaderStep(c))

\* the server's threads and the thread that drops the MessageServer are
\* scheduled; nothing is assumed of the peers: a peer may stay silent
ServerLiveSpec ==
    /\ Spec
    /\ WF_vars(ListenerStep)
    /\ WF_vars(server_drop_join)
    /\ \A c \in Conns : WF_vars(ReaderStep(c))

\* one framed channel on its own
FrameNext == FNext

SpecFrame == Init /\ [][FrameNext]_vars

\* one sender of messages of any size and its receiver
SpecSend == Init /\ [][SendNext]_vars

\* threads sending on clones of one transport, and the receiver
SpecConc == Init /\ [][ConcNext]_vars

\* ===================================================================
\* Claims on the framing specification
\* ===================================================================
\* the 8 prefix bytes the latest call read, and what they say, digit by digit
LastPrefix == Unpack(last.pre, 8)

PrefixAboveLimit(p) ==
    \/ \E i \in 5..8 : p[i] # 0
    \/ p[4] > 1
    \/ p[4] = 1 /\ (p[1] # 0 \/ p[2] # 0 \/ p[3] # 0)

PrefixValue(p) == p[1] + 256 * p[2] + 65536 * p[3] + 16777216 * p[4]

Consumed == Avail(last.pre) - Avail(last.res.rest)

\* C4: recv fails with the oversized-message error exactly when the 8-byte
\* little-endian length prefix is above 16 MiB, and then it has consumed the
\* 8 prefix bytes and nothing of the payload; a prefix of 16 MiB or less
\* (0 included) is not rejected and that many payload bytes are read.
SizeGuard ==
    (last.op # "none" /\ Avail(last.pre) >= 8) =>
        /\ (last.res.kind = "FileTooLarge") <=> PrefixAboveLimit(LastPrefix)
        /\ PrefixAboveLimit(LastPrefix) =>
              /\ last.res.st = "Err"
              /\ Consumed = 8
              /\ last.res.rest = DropBytes(last.pre, 8)
        /\ (~PrefixAboveLimit(LastPrefix) /\ last.res.kind # "UnexpectedEof") =>
              /\ Consumed = 8 + PrefixValue(LastPrefix)
              /\ last.res.rest = DropBytes(last.pre, 8 + PrefixValue(LastPrefix))

\* an oversized prefix was rejected with payload bytes left unread behind it
SizeGuardWitness ==
    /\ last.op = "recv"
    /\ last.res.kind = "FileTooLarge"
    /\ Avail(last.res.rest) >= 3
    /\ \E i \in 1..Len(got) : got[i].st = "Ok"

\* the variant index of the frame at the head of the latest call's input
LastIndex == Unpack(DropBytes(last.pre, 8), 4)

LastWellFormed ==
    /\ Avail(last.pre) >= 8
    /\ ~PrefixAboveLimit(LastPrefix)
    /\ PrefixValue(LastPrefix) >= 5
    /\ Avail(last.pre) >= 8 + PrefixValue(LastPrefix)

Expected(op) == IF op = "ServersideTransport::recv" THEN <<0, 0, 0, 0>> ELSE <<1, 0, 0, 0>>

Other(op) == IF op = "ServersideTransport::recv" THEN <<1, 0, 0, 0>> ELSE <<0, 0, 0, 0>>

\* C5: a typed recv returns Ok only for a frame of the subtype its role
\* expects; a frame that decodes to the other role's subtype makes it fail
\* with the protocol-violation error and delivers nothing.
DirectionEnforced ==
    (last.op \in {"ServersideTransport::recv", "ClientsideTransport::recv"}) =>
        /\ last.res.st = "Ok" =>
              /\ LastWellFormed
              /\ LastIndex = Expected(last.op)
              /\ last.res.val = <<Unpack(DropBytes(last.pre, 12), 1)[1]>>
        /\ (LastWellFormed /\ LastIndex = Other(last.op)) =>
              /\ last.res.st = "Err"
              /\ last.res.kind = "InvalidData"
              /\ last.res.msg =
                    (IF last.op = "ServersideTransport::recv"
                     THEN "Received a serverside message from a client"
                     ELSE "Received a clientside message from the server")
              /\ last.res.val = <<>>

\* the server side was handed a server-originated message and refused it
DirectionWitness ==
    /\ last.op = "ServersideTransport::recv"
    /\ LastWellFormed
    /\ LastIndex = <<1, 0, 0, 0>>
    /\ last.res.st = "Err"

\* the frame of an envelope value, byte by byte
FrameOf(m) ==
    Pack(<<5, 0, 0, 0, 0, 0, 0, 0>>
         \o <<IF m.role = "client" THEN 0 ELSE 1, 0, 0, 0>>
         \o <<m.body>>)

RECURSIVE FramesOf(_)
FramesOf(ms) == IF ms = <<>> THEN <<>> ELSE Cat(FrameOf(Head(ms)), FramesOf(Tail(ms)))

\* receive calls that found a frame (the last one may have found the end)
Framed ==
    IF got # <<>> /\ got[Len(got)].kind = "UnexpectedEof"
    THEN Len(got) - 1 ELSE Len(got)

\* C6: while only send writes to the channel, the i-th recv returns the i-th
\* value sent, equal to the original, and the bytes left on the channel are
\* exactly the whole frames of the values not yet received.
RoundTrip ==
    forged = 0 =>
        /\ Framed <= Len(sent)
        /\ \A i \in 1..Framed :
              /\ got[i].op = "recv" =>
                    got[i].st = "Ok" /\ got[i].val = <<sent[i]>>
              /\ got[i].st = "Ok" /\ got[i].op # "recv" =>
                    got[i].val = <<sent[i].body>>
        /\ chan = FramesOf(SubSeq(sent, Framed + 1, Len(sent)))
        /\ Framed < Len(got) => chan = <<>>

\* two different values went through and the channel is empty again
RoundTripWitness ==
    /\ forged = 0
    /\ Len(sent) = 2
    /\ sent[1] # sent[2]
    /\ Len(got) = 2
    /\ got[1].op = "recv" /\ got[2].op = "recv"
    /\ got[2].st = "Ok"
    /\ chan = <<>>

\* ===================================================================
\* Claims on the server and the client
\* ===================================================================
RECURSIVE Count(_, _)
Count(evs, ev) ==
    IF evs = <<>> THEN 0
    ELSE (IF Head(evs).ev = ev THEN 1 ELSE 0) + Count(Tail(evs), ev)

\* Connect, then Messages, then at most one Disconnect, which is last
Ordered(evs) ==
    evs # <<>> =>
        /\ evs[1].ev = "Connect"
        /\ \A i \in 2..Len(evs) :
              /\ evs[i].ev \in {"Message", "Disconnect"}
              /\ evs[i].ev = "Disconnect" => i = Len(evs)

Ended(evs) == evs # <<>> /\ evs[Len(evs)].ev = "Disconnect"

\* the client's thread is done with connection c
ClientLeft(c) == cEnd[c] # "none" /\ ~cOwn[c]

\* C1: the events sent to the sink for one connection are one Connect, then
\* Messages, then one Disconnect: never a second Disconnect, never a Message
\* after it, and the Connect is there before the reader can send a Message.
\* The Disconnect is there once the reader of the connection has ended
\* (while the sink still takes events).
EventOrder ==
    \A c \in Conns :
        /\ Ordered(sEv[c])
        /\ Ordered(cEv[c])
        /\ rpc[c] # "None" => sEv[c] # <<>>
        /\ Ended(sEv[c]) => rpc[c] = "Done"
        /\ Ended(cEv[c]) => ClientLeft(c)
        /\ (rpc[c] = "Done" /\ sSink) => Ended(sEv[c])
        /\ (cEv[c] # <<>> /\ ClientLeft(c) /\ cSink) => Ended(cEv[c])

\* both sinks saw Connect, a Message and Disconnect for the same connection
EventOrderWitness ==
    \E c \in Conns :
        /\ Len(sEv[c]) = 3 /\ sEv[c][2].ev = "Message" /\ Ended(sEv[c])
        /\ Len(cEv[c]) >= 2 /\ Ended(cEv[c])

\* C2: once the drop of a MessageServer or MessageClient has returned, no
\* thread the instance started is still running: for the server the listener
\* and every reader thread, for the client the connection thread.
ReleaseJoinsAll ==
    /\ sDrop = "returned" =>
          /\ lpc \in {"Stopped", "Panicked"}
          /\ \A c \in Conns : rpc[c] # "Forwarding"
    /\ cDrop = "returned" => kpc \in {"Exited", "Panicked"}

\* C3: after any number of connects that failed in a row the client thread
\* connects again, without anything being done to it, unless the stop signal
\* was sent; so it does after a failed handshake and after a Disconnect; the
\* thread returns from its loop only when the stop signal was sent.
ReconnectLiveness ==
    /\ (kpc = "Idle" /\ cDrop = "held") ~> (kpc = "Connecting" \/ cDrop # "held")
    /\ [][(kpc = "Idle" /\ kpc' # "Idle" /\ cDrop' = "held")
             => (kpc' = "Connecting" /\ streak' = streak /\ back' = back)]_vars
    /\ [](kpc = "Exited" => cDrop # "held")

\* the client is connecting again after MaxStreak failures in a row and
\* nobody has asked it to stop
ReconnectWitness ==
    /\ kpc = "Connecting"
    /\ streak = MaxStreak
    /\ back = "connect"
    /\ cDrop = "held"

\* the entries of a wire log before position i
Before(w, i, dir, kind) == \E j \in 1..(i - 1) : w[j].dir = dir /\ w[j].kind = kind

Has(w, dir, kind) == Before(w, Len(w) + 1, dir, kind)

Handshakes(c, dir) ==
    {i \in 1..Len(wlog[c]) : wlog[c][i].dir = dir /\ wlog[c][i].kind = "handshake"}

ServerFrameCarriesPeer ==
    \A c \in Conns :
        /\ \A i \in Handshakes(c, "s2c") : wlog[c][i].val = <<ClientAddr(c)>>
        /\ cEv[c] # <<>> => cEv[c][1].val = <<ClientAddr(c)>>

RECURSIVE Sent(_, _)
Sent(w, dir) ==
    IF w = <<>> THEN <<>>
    ELSE (IF Head(w).dir = dir /\ Head(w).kind = "message" THEN <<Head(w).val>> ELSE <<>>)
         \o Sent(Tail(w), dir)

RECURSIVE Forwarded(_)
Forwarded(evs) ==
    IF evs = <<>> THEN <<>>
    ELSE (IF Head(evs).ev = "Message" THEN <<Head(evs).val>> ELSE <<>>)
         \o Forwarded(Tail(evs))

IsPrefix(a, b) == Len(a) <= Len(b) /\ a = SubSeq(b, 1, Len(a))

\* the connection is up in a direction: both sockets open, the reader of
\* that direction reading, its sink taking events
UpToServer(c) ==
    cEnd[c] = "open" /\ sEnd[c] = "open" /\ rpc[c] = "Forwarding" /\ sSink

UpToClient(c) ==
    cEnd[c] = "open" /\ sEnd[c] = "open" /\ kpc = "Forwarding" /\ kcur = c /\ cSink

\* C9: the messages forwarded to a sink are, in order and once each, the
\* messages the peer's application sent on that connection, with the same
\* payload; and while the connection stays up every message sent is forwarded.
EndToEnd ==
    /\ [](\A c \in Conns :
             /\ IsPrefix(Forwarded(sEv[c]), Sent(wlog[c], "c2s"))
             /\ IsPrefix(Forwarded(cEv[c]), Sent(wlog[c], "s2c")))
    /\ []<>(\A c \in Conns :
             /\ UpToServer(c) => Forwarded(sEv[c]) = Sent(wlog[c], "c2s")
             /\ UpToClient(c) => Forwarded(cEv[c]) = Sent(wlog[c], "s2c"))

\* two different messages of the client were forwarded by the server's reader
EndToEndWitness ==
    \E c \in Conns :
        /\ Len(Forwarded(sEv[c])) = 2
        /\ Forwarded(sEv[c])[1] # Forwarded(sEv[c])[2]
        /\ UpToServer(c)

\* C10: when the server has closed its socket of an established connection
\* the client's reader fails, one Disconnect is sent for the connection (if
\* the sink still takes events) and, unless the stop signal was sent, the
\* client is connecting again.
ServerCloseReconnects ==
    (kpc = "Forwarding" /\ sEnd[kcur] \in {"shut", "closed"})
        ~> \/ /\ kpc = "Connecting"
              /\ back = "disconnect"
              /\ Count(cEv[kcur], "Disconnect") <= 1
              /\ cSink => Count(cEv[kcur], "Disconnect") = 1
           \/ cDrop # "held"

\* the server closed the first connection, the client sent its Disconnect
\* and has connected again
ServerCloseWitness ==
    /\ sEnd[1] \in {"shut", "closed"}
    /\ Ended(cEv[1])
    /\ cDrop = "held"
    /\ kcur = 2
    /\ kpc = "Handshaking"

\* C11: once the stop signal was sent by the drop of the MessageServer the
\* listener thread ends and the drop returns (or propagates the listener's
\* panic), whatever the peers do.
ServerStopLiveness ==
    (sDrop = "joining") ~> (lpc \in {"Stopped", "Panicked"} /\ sDrop # "joining")

\* the handshake recv of the listener (of the client) on connection c fails
SrvHandshakeFails(c) ==
    /\ lpc = "Handshaking"
    /\ lcur = c
    /\ recv(c2s[c], SrvEof(c), "SocketMessage").st = "Err"

CliHandshakeFails(c) ==
    /\ kpc = "Handshaking"
    /\ kcur = c
    /\ recv(s2c[c], CliEof(c), "SocketMessage").st = "Err"

\* the server (the client) has no handle, no reader and no event of c
SrvAbandoned(c) ==
    sEnd[c] = "closed" /\ ~sOwn[c] /\ sApp[c] = "none" /\ rpc[c] = "None" /\ sEv[c] = <<>>

CliAbandoned(c) ==
    cEnd[c] = "closed" /\ ~cOwn[c] /\ cApp[c] = "none" /\ cEv[c] = <<>>

\* C12: when the handshake recv on a connection fails, the thread drops its
\* transport of the connection, starts no reader for it and goes back to the
\* head of its loop, and no Connect, Message or Disconnect is ever sent for
\* that connection.
HandshakeFailureSilent ==
    /\ [][\A c \in Conns :
             /\ (SrvHandshakeFails(c) /\ lpc' # "Handshaking")
                   => (SrvAbandoned(c)' /\ lpc' = "Poll")
             /\ (CliHandshakeFails(c) /\ kpc' # "Handshaking")
                   => (CliAbandoned(c)' /\ kpc' = "Idle")
             /\ SrvAbandoned(c) => SrvAbandoned(c)'
             /\ CliAbandoned(c) => CliAbandoned(c)']_vars

\* the listener is back in its loop after the handshake recv on an accepted
\* connection failed
HandshakeFailureWitness ==
    \E c \in Conns :
        /\ lpc = "Poll"
        /\ SrvAbandoned(c)
        /\ cEnd[c] = "closed"

\* C13: a failure of one connection does not end the listener thread or the
\* client's loop: with its sink alive the listener ends by a panic only at
\* bind or at accept, and the client thread ends only at the head of its
\* loop, on the stop signal.
FailureIsolation ==
    [][/\ (lpc' = "Panicked" /\ lpc # "Panicked" /\ sSink)
            => lpc \in {"Starting", "Accept"}
       /\ (kpc' \in {"Exited", "Panicked"} /\ kpc \notin {"Exited", "Panicked"} /\ cSink)
            => (kpc = "Idle" /\ cKill)]_vars

\* C14: after shutdown on a handle of a connection a recv on any clone of
\* the handle does not block (it returns what had arrived, then fails), a
\* send writes nothing more, and the reader thread of the connection sends
\* its Disconnect (if the sink takes it) and ends.
ShutdownUnblocks ==
    /\ [](\A c \in Conns :
             /\ (sEnd[c] = "shut" /\ rpc[c] = "Forwarding")
                   => ServersideRecv(c2s[c], SrvEof(c)).st # "Block"
             /\ (cEnd[c] = "shut" /\ kpc = "Forwarding" /\ kcur = c)
                   => ClientsideRecv(s2c[c], CliEof(c)).st # "Block"
             /\ (sEnd[c] = "shut" /\ rpc[c] = "Done" /\ sSink) => Ended(sEv[c]))
    /\ [][\A c \in Conns :
             /\ sEnd[c] = "shut" => Avail(s2c'[c]) <= Avail(s2c[c])
             /\ cEnd[c] = "shut" => Avail(c2s'[c]) <= Avail(c2s[c])]_vars
    /\ []<>(\A c \in Conns :
             /\ sEnd[c] = "shut" => rpc[c] # "Forwarding"
             /\ cEnd[c] = "shut" => ~(kpc = "Forwarding" /\ kcur = c))

\* the server's application shut its handle down while the peer kept its
\* socket open, and the reader has sent Disconnect and ended
ShutdownWitness ==
    \E c \in Conns :
        /\ sEnd[c] = "shut"
        /\ cEnd[c] = "open"
        /\ rpc[c] = "Done"
        /\ Ended(sEv[c])

\* C15: a frame that send has put on the wire has a length prefix of at most
\* 16 MiB (here: the frame at the head of a channel that only send has
\* written to and nothing was received from).
FrameWithinLimit ==
    (forged = 0 /\ got = <<>> /\ chan # <<>>) => ~PrefixAboveLimit(Unpack(chan, 8))

\* the reader of c takes a frame off the connection in this step
ReaderReads(c) == rpc[c] = "Forwarding" /\ Avail(c2s'[c]) < Avail(c2s[c])

\* C16: when the server's reader has received a message and the sink is gone,
\* the reader ends without an event (its Disconnect cannot be sent either),
\* drops its transport, and never reads from the connection again.
SinkGoneEndsReader ==
    [][\A c \in Conns :
          /\ (ReaderReads(c) /\ ~sSink /\ ServersideRecv(c2s[c], SrvEof(c)).st = "Ok")
                => (rpc'[c] = "Done" /\ sEv'[c] = sEv[c] /\ ~sOwn'[c])
          /\ rpc[c] = "Done"
                => (rpc'[c] = "Done" /\ Avail(c2s'[c]) >= Avail(c2s[c]))]_vars

\* the client's message arrived after the sink was dropped: the reader took
\* it, sent no event and ended, with both sockets still open
SinkGoneWitness ==
    \E c \in Conns :
        /\ ~sSink
        /\ rpc[c] = "Done"
        /\ Len(Sent(wlog[c], "c2s")) = 1
        /\ c2s[c] = <<>>
        /\ Len(sEv[c]) = 1
        /\ cEnd[c] = "open"
        /\ sEnd[c] = "open"

\* C17: accept failing with an error other than WouldBlock ends the listener
\* thread; an ended listener accepts nothing and sends no Connect; accept
\* returning WouldBlock sends the listener back to its poll.
AcceptErrorFatal ==
    [][/\ (lpc = "Accept" /\ lpc' # "Accept" /\ faults' # faults) => lpc' = "Panicked"
       /\ (lpc = "Accept" /\ lpc' # "Accept" /\ faults' = faults /\ backlog = <<>>)
             => lpc' = "Poll"
       /\ lpc = "Panicked" =>
             /\ lpc' = "Panicked"
             /\ lcur' = lcur
             /\ backlog' = <<>>
             /\ \A c \in Conns :
                   /\ sOwn[c] \/ ~sOwn'[c]
                   /\ sEv[c] = <<>> => sEv'[c] = <<>>]_vars

\* accept failed with a connection waiting: the listener has ended, the
\* connection was closed with nothing sent on it
AcceptErrorWitness ==
    /\ lpc = "Panicked"
    /\ nconn = 1
    /\ wlog[1] = <<>>
    /\ sEnd[1] = "closed"
    /\ sEv[1] = <<>>

\* a step of the server's reader (of the client's thread) on connection c
ReaderActs(c) ==
    rpc[c] = "Forwarding"
    /\ (rpc'[c] # rpc[c] \/ sEv'[c] # sEv[c] \/ Avail(c2s'[c]) < Avail(c2s[c]))

ClientActs(c) ==
    kpc = "Forwarding" /\ kcur = c
    /\ (kpc' # kpc \/ cEv'[c] # cEv[c] \/ Avail(s2c'[c]) < Avail(s2c[c]))

\* C18: when the typed recv of a reader fails, whatever the failure, the
\* reader sends no Message for the frame and one Disconnect (if the sink takes
\* it), ends its loop on the connection and never reads from it again.
RecvFailureFatal ==
    [][\A c \in Conns :
          /\ (ReaderActs(c) /\ ServersideRecv(c2s[c], SrvEof(c)).st = "Err") =>
                /\ rpc'[c] = "Done"
                /\ sEv'[c] = IF sSink
                             THEN Append(sEv[c], Event("Disconnect", <<>>, ClientAddr(c).ip))
                             ELSE sEv[c]
          /\ (ClientActs(c) /\ ClientsideRecv(s2c[c], CliEof(c)).st = "Err") =>
                /\ kpc' = "Idle"
                /\ ~cOwn'[c]
                /\ cEv'[c] = IF cSink
                             THEN Append(cEv[c], Event("Disconnect", <<>>, <<>>))
                             ELSE cEv[c]
          /\ rpc[c] = "Done" =>
                (rpc'[c] = "Done" /\ sEv'[c] = sEv[c] /\ Avail(c2s'[c]) >= Avail(c2s[c]))
          /\ (cEv[c] # <<>> /\ ClientLeft(c)) =>
                (ClientLeft(c)' /\ cEv'[c] = cEv[c] /\ Avail(s2c'[c]) >= Avail(s2c[c]))]_vars

\* the client's application wrote bytes that are no client message on an
\* open connection: the server's reader sent Disconnect and no Message, and
\* ended with both sockets open
RecvFailureWitness ==
    \E c \in Conns :
        /\ Has(wlog[c], "c2s", "raw")
        /\ rpc[c] = "Done"
        /\ sEv[c] = <<sEv[c][1], Event("Disconnect", <<>>, ClientAddr(c).ip)>>
        /\ cEnd[c] = "open"
        /\ sEnd[c] = "open"

\* C19: the listener reads the stop channel before every call of accept: it
\* gets to accept only from the loop condition, and only when the condition
\* found no signal; when the condition finds the signal the listener stops,
\* and a stopped listener accepts nothing. A connection is accepted only by a
\* step out of accept, so two accepts have a poll between them.
PollBeforeAccept ==
    [][/\ (lpc' = "Accept" /\ lpc # "Accept") => (lpc = "Poll" /\ ~sKill)
       /\ (lpc = "Poll" /\ lpc' # "Poll" /\ sKill) => (lpc' = "Stopped" /\ ~sKill')
       /\ (\E c \in Conns : ~sOwn[c] /\ sOwn'[c]) =>
             (lpc = "Accept" /\ lpc' = "Handshaking")
       /\ lpc = "Stopped" =>
             (lpc' = "Stopped" /\ \A c \in Conns : sOwn[c] \/ ~sOwn'[c])]_vars

\* the signal came after the first connection was accepted and while the
\* second was waiting: the listener stopped and never accepted the second
PollBeforeAcceptWitness ==
    /\ lpc = "Stopped"
    /\ nconn = 2
    /\ sEv[1] # <<>>
    /\ wlog[2] = <<>>
    /\ ~sOwn[2]
    /\ sEnd[2] = "closed"

\* the result of the recv the client's thread is in
ClientRecvSt ==
    IF kpc = "Handshaking" THEN recv(s2c[kcur], CliEof(kcur), "SocketMessage").st
    ELSE IF kpc = "Forwarding" THEN ClientsideRecv(s2c[kcur], CliEof(kcur)).st
    ELSE "None"

\* C20: the client's thread reads the stop channel only in the condition of
\* its outer loop. The signal is consumed only by a step from the loop
\* boundary, and that step ends the thread without a new connection; the
\* thread ends from nowhere else. While the thread waits in recv it does not
\* move, signal or not, and the drop of the MessageClient, which joins the
\* thread, returns only once the thread has ended; a recv that fails takes
\* the thread to the loop boundary, where the signal ends it.
CooperativeCancel ==
    [][/\ (cKill /\ ~cKill') => (kpc = "Idle" /\ kpc' = "Exited")
       /\ (kpc' = "Exited" /\ kpc # "Exited") => (kpc = "Idle" /\ cKill)
       /\ (cKill /\ kpc = "Idle" /\ kpc' # "Idle") =>
             (kpc' = "Exited" /\ nconn' = nconn /\ cEv' = cEv)
       /\ ClientRecvSt = "Block" =>
             (kpc' = kpc /\ kcur' = kcur /\ cEv' = cEv /\ (cKill => cKill')
                /\ cDrop' # "returned")
       /\ (cKill /\ ClientRecvSt = "Err" /\ kpc' # kpc) => kpc' = "Idle"
       /\ cDrop = "joining" =>
             \/ cDrop' = "joining"
             \/ kpc = "Exited" /\ cDrop' = "returned"
             \/ kpc = "Panicked" /\ cDrop' = "panicked"]_vars

\* the MessageClient is being dropped while its thread waits in the recv of an
\* established connection on which the server never wrote a message: the signal
\* is there, unread, and the drop waits in join
CooperativeCancelWitness ==
    /\ cDrop = "joining"
    /\ cKill
    /\ kpc = "Forwarding"
    /\ ClientRecvSt = "Block"
    /\ cEnd[kcur] = "open"
    /\ sEnd[kcur] = "open"
    /\ ~Has(wlog[kcur], "s2c", "message")

\* C21: the socket of a connection is open (or shut down, never closed) while
\* a thread of the library or the application holds a handle to it; it closes
\* only in a step that leaves no handle, and it is shut down only by an
\* explicit shutdown of the application that holds a handle.
SocketFollowsHandles ==
    /\ [](\A c \in Conns :
            /\ (sOwn[c] \/ sApp[c] = "held") => sEnd[c] \in {"open", "shut"}
            /\ (cOwn[c] \/ cApp[c] = "held") => cEnd[c] \in {"open", "shut"})
    /\ [][\A c \in Conns :
            /\ (sEnd[c] # "closed" /\ sEnd'[c] = "closed") =>
                  (~sOwn'[c] /\ sApp'[c] # "held")
            /\ (cEnd[c] # "closed" /\ cEnd'[c] = "closed") =>
                  (~cOwn'[c] /\ cApp'[c] # "held")
            /\ (sEnd[c] # "shut" /\ sEnd'[c] = "shut") =>
                  (sEnd[c] = "open" /\ sApp[c] = "held" /\ ops' = ops + 1)
            /\ (cEnd[c] # "shut" /\ cEnd'[c] = "shut") =>
                  (cEnd[c] = "open" /\ cApp[c] = "held" /\ ops' = ops + 1)]_vars

\* the server's reader has ended and sent Disconnect, the application still
\* holds the handle of Connect, and the server's socket is open
SocketFollowsHandlesWitness ==
    \E c \in Conns :
        /\ rpc[c] = "Done"
        /\ ~sOwn[c]
        /\ sEv[c] # <<>>
        /\ sEv[c][Len(sEv[c])].ev = "Disconnect"
        /\ sApp[c] = "held"
        /\ sEnd[c] = "open"

\* the Connect events in evs all carry the value val, and the frames read on
\* the connection include a handshake, in direction dir, with that value
ConnectCarries(evs, w, dir, val) ==
    \A i \in 1..Len(evs) :
        evs[i].ev = "Connect" =>
            /\ evs[i].val = val
            /\ \E j \in 1..Len(w) : w[j] = Written(dir, "handshake read", val)

\* C22: the address of a Connect event is the value of the handshake frame
\* the side received, and it is the address the peer has for the local
\* endpoint: at the client the address accept reported to the server, at the
\* server the address the client connected to. The handle of the event is a
\* clone made of the transport the reader reads: it is handed over in the
\* step that sends Connect, for the connection the thread holds and goes on
\* to read.
ConnectAddress ==
    /\ [](\A c \in Conns :
            /\ ConnectCarries(cEv[c], wlog[c], "s2c", <<ClientAddr(c)>>)
            /\ ConnectCarries(sEv[c], wlog[c], "c2s", <<ServerAddr>>))
    /\ [][\A c \in Conns :
            /\ (sApp[c] # "held" /\ sApp'[c] = "held") =>
                  /\ lpc = "Handshaking" /\ lcur = c /\ sOwn[c] /\ sOwn'[c]
                  /\ rpc'[c] = "Forwarding"
                  /\ Len(sEv'[c]) = Len(sEv[c]) + 1
                  /\ sEv'[c][Len(sEv'[c])].ev = "Connect"
            /\ (cApp[c] # "held" /\ cApp'[c] = "held") =>
                  /\ kpc = "Handshaking" /\ kcur = c /\ cOwn[c] /\ cOwn'[c]
                  /\ kpc' = "Forwarding" /\ kcur' = c
                  /\ Len(cEv'[c]) = Len(cEv[c]) + 1
                  /\ cEv'[c][Len(cEv'[c])].ev = "Connect"]_vars

\* both sides of a connection have sent their Connect
ConnectAddressWitness ==
    \E c \in Conns :
        /\ cEv[c] # <<>> /\ cEv[c][1] = Event("Connect", <<ClientAddr(c)>>, <<>>)
        /\ sEv[c] # <<>> /\ sEv[c][1] = Event("Connect", <<ServerAddr>>, ClientAddr(c).ip)
        /\ cApp[c] = "held"
        /\ sApp[c] = "held"

Orders(n) == { p \in [1..n -> 1..n] : \A i, j \in 1..n : p[i] = p[j] => i = j }

\* C23: when no send is in progress and nothing has been read, the bytes on
\* the wire are the whole frames of the messages sent, in some order: no
\* prefix or payload of one frame lies inside another.
FramesWhole ==
    ((\A t \in Senders : pend[t] = <<>>) /\ got = <<>>) =>
        \E p \in Orders(Len(sent)) :
            chan = FramesOf([i \in 1..Len(sent) |-> sent[p[i]]])

\* C24: a peer that does not send its handshake does not hold the listener:
\* whatever the peer does, a listener that waits for a handshake is back in
\* its accept loop, where it polls the stop signal and accepts, before long.
ListenerNotStalled == (lpc = "Handshaking") ~> (lpc # "Handshaking")

\* C25: the drop of a MessageServer or of a MessageClient does not panic,
\* whatever has become of its thread.
DropCompletes == sDrop # "panicked" /\ cDrop # "panicked"

\* C26: a closed event sink crashes no thread: as long as bind, accept and
\* try_clone have not failed, neither the listener nor the client's thread
\* panics, whether or not their Connect can be delivered.
ClosedSinkNoCrash == faults = 0 => (lpc # "Panicked" /\ kpc # "Panicked")

\* C27: a side sends Connect for a connection only if its own handshake
\* frame was written to the connection.
ConnectAfterOwnHandshake ==
    \A c \in Conns :
        /\ sEv[c] # <<>> => Has(wlog[c], "s2c", "handshake")
        /\ cEv[c] # <<>> => Has(wlog[c], "c2s", "handshake")

\* C28: once the drop of the MessageClient has returned, the client's thread
\* has ended: it sends no event, connects to nothing, and reads and writes
\* no connection.
QuietAfterRelease ==
    /\ [](cDrop = "returned" => kpc = "Exited")
    /\ [][cDrop = "returned" =>
            /\ cDrop' = "returned"
            /\ kpc' = kpc
            /\ cEv' = cEv
            /\ nconn' = nconn
            /\ cOwn' = cOwn
            /\ \A c \in Conns : Avail(s2c'[c]) >= Avail(s2c[c])]_vars

\* the drop has returned after a connection that sent Connect and Disconnect,
\* and the server still listens: a further attempt would find it
QuietAfterReleaseWitness ==
    /\ cDrop = "returned"
    /\ Listening
    /\ nconn = 1
    /\ Len(cEv[1]) >= 2
    /\ cEv[1][Len(cEv[1])].ev = "Disconnect"

\* C29: two connections whose readers are both running carry different tags
\* on their events at the server's sink.
TagsIdentifyConnection ==
    \A c, d \in Conns :
        (c # d /\ rpc[c] = "Forwarding" /\ rpc[d] = "Forwarding"
           /\ sEv[c] # <<>> /\ sEv[d] # <<>>)
        => sEv[c][1].tag # sEv[d][1].tag

\* C30: a recv that fails with no I/O error has consumed its whole frame, the
\* prefix and as many bytes as the prefix says, so that the next recv starts
\* at the next frame. Stated for the first call on a channel that holds only
\* frames written by send.
FailedRecvStaysAligned ==
    (Len(got) = 1 /\ forged = 0 /\ got[1].st = "Err" /\ got[1].kind # "UnexpectedEof")
        => Avail(last.pre) - Avail(last.res.rest)
               = 8 + from_le_bytes(Unpack(last.pre, 8))

====
